---- MODULE Spec2Model ----
(***************************************************************************)
(* ori-shell-executor: the policy-gated command executor of src/main.go.   *)
(*                                                                         *)
(* Strings are sequences of one-character strings, so that prefix, suffix  *)
(* and substring tests are computed the way the Go code computes them.     *)
(***************************************************************************)
EXTENDS Integers, Sequences, FiniteSets, TLC

VARIABLES
    pc,          \* position of the one request in flight
    file,        \* the settings file on disk (decoded JSON object) or NoFile
    env,         \* agent context, process cwd, home directory, existing dirs, shells
    params,      \* OriShellExecutorParams of the request
    settings,    \* Settings loaded by Execute
    workingDir,  \* Execute's local workingDir
    timeout,     \* Execute's local timeout
    steps,       \* the operations Execute has performed, in order
    ret,         \* what Execute returned to its caller
    child,       \* the process started by cmd.Run
    desc,        \* a process the child started (grandchild of the executor)
    ctx,         \* the caller's context
    execCtx,     \* the context derived by context.WithTimeout
    runErr       \* the error cmd.Run returned

vars == <<pc, file, env, params, settings, workingDir, timeout, steps, ret,
          child, desc, ctx, execCtx, runErr>>

----------------------------------------------------------------------------
(* Bounds of the model.                                                    *)

MaxLen == 3        \* longest command string drawn over Alphabet
MaxPatterns == 2   \* longest allow-list / block-list drawn over PatternPool
Over == 1          \* how far timeouts are drawn beyond the 300 s cap

----------------------------------------------------------------------------
(* strings.* of the Go standard library, on sequences of characters.       *)

HasPrefix(s, p) == Len(p) <= Len(s) /\ SubSeq(s, 1, Len(p)) = p

HasSuffix(s, x) == Len(x) <= Len(s) /\ SubSeq(s, Len(s) - Len(x) + 1, Len(s)) = x

Contains(s, sub) ==
    \E i \in 0..(Len(s) - Len(sub)) : SubSeq(s, i + 1, i + Len(sub)) = sub

TrimSuffix(s, x) == IF HasSuffix(s, x) THEN SubSeq(s, 1, Len(s) - Len(x)) ELSE s

TrimPrefix(s, p) == IF HasPrefix(s, p) THEN SubSeq(s, Len(p) + 1, Len(s)) ELSE s

\* index of the first occurrence of the one-character string c in s (0: none)
Index(s, c) ==
    IF \E i \in 1..Len(s) : s[i] = c
    THEN CHOOSE i \in 1..Len(s) : s[i] = c /\ \A j \in 1..(i - 1) : s[j] # c
    ELSE 0

\* strings.SplitN(s, c, 2)
SplitN2(s, c) ==
    IF Index(s, c) = 0 THEN <<s>>
    ELSE <<SubSeq(s, 1, Index(s, c) - 1), SubSeq(s, Index(s, c) + 1, Len(s))>>

----------------------------------------------------------------------------
(* matchesPattern, main.go:405-445                                         *)

Star == <<"*">>

\* a plausible slip: the bare-command accommodation is dropped
matchesPatternNoBare(command, pattern) ==
    \/ command = pattern
    \/ /\ Contains(pattern, Star)
       /\ \/ HasSuffix(pattern, Star) /\ HasPrefix(command, TrimSuffix(pattern, Star))
          \/ HasPrefix(pattern, Star) /\ HasSuffix(command, TrimPrefix(pattern, Star))
          \/ /\ HasPrefix(command, SubSeq(pattern, 1, Index(pattern, "*") - 1))
             /\ HasSuffix(command, SubSeq(pattern, Index(pattern, "*") + 1, Len(pattern)))

\* a plausible slip: the prefix is looked for anywhere in the command
matchesPatternContains(command, pattern) ==
    \/ command = pattern
    \/ /\ Contains(pattern, Star)
       /\ \/ /\ HasSuffix(pattern, Star)
             /\ LET prefix == TrimSuffix(pattern, Star) IN
                \/ Contains(command, prefix)
                \/ /\ HasSuffix(prefix, <<" ">>)
                   /\ command = TrimSuffix(prefix, <<" ">>)
          \/ /\ HasPrefix(pattern, Star)
             /\ HasSuffix(command, TrimPrefix(pattern, Star))
          \/ LET parts == SplitN2(pattern, "*") IN
                /\ Len(parts) = 2
                /\ HasPrefix(command, parts[1])
                /\ HasSuffix(command, parts[2])

matchesPattern(command, pattern) ==
    \/ command = pattern
    \/ /\ Contains(pattern, Star)
       /\ \/ /\ HasSuffix(pattern, Star)
             /\ LET prefix == TrimSuffix(pattern, Star) IN
                \/ HasPrefix(command, prefix)
                \/ /\ HasSuffix(prefix, <<" ">>)
                   /\ command = TrimSuffix(prefix, <<" ">>)
          \/ /\ HasPrefix(pattern, Star)
             /\ HasSuffix(command, TrimPrefix(pattern, Star))
          \/ LET parts == SplitN2(pattern, "*") IN
                /\ Len(parts) = 2
                /\ HasPrefix(command, parts[1])
                /\ HasSuffix(command, parts[2])

----------------------------------------------------------------------------
(* containsShellMetacharacters, main.go:447-470                            *)

\* the backquote character (the lexer of the tools rejects it inside a string)
Backquote == "backquote"

operators ==
    << <<"&","&">>, <<"|","|">>, <<"|">>, <<";">>, <<"&">>, <<">">>, <<"<">>,
       <<Backquote>>, <<"$","(">> >>

containsShellMetacharacters(command) ==
    \/ Contains(command, <<"\n">>)
    \/ \E i \in 1..Len(operators) : Contains(command, operators[i])

----------------------------------------------------------------------------
(* Errors returned by Execute and its validators.                          *)

Nil == [kind |-> "nil"]
ErrEmptyCommand == [kind |-> "EmptyCommand"]
ErrMetacharacters == [kind |-> "MetacharactersRejected"]
ErrBlocked(pattern) == [kind |-> "BlockedPattern", pattern |-> pattern]
ErrNotAllowed(allowedPatterns) == [kind |-> "NotAllowed", allowed |-> allowedPatterns]
ErrGetwd == [kind |-> "WorkingDirResolutionFailed"]

\* validateShellMetacharacters, main.go:294-305
validateShellMetacharacters(command, allow) ==
    IF allow THEN Nil
    ELSE IF containsShellMetacharacters(command) THEN ErrMetacharacters
    ELSE Nil

\* validateNotBlocked, main.go:284-292
validateNotBlocked(command, blockedPatterns) ==
    IF \E i \in 1..Len(blockedPatterns) : matchesPattern(command, blockedPatterns[i])
    THEN LET first == CHOOSE i \in 1..Len(blockedPatterns) :
                         /\ matchesPattern(command, blockedPatterns[i])
                         /\ \A j \in 1..(i - 1) :
                                ~matchesPattern(command, blockedPatterns[j])
         IN ErrBlocked(blockedPatterns[first])
    ELSE Nil

\* a plausible slip: the empty allow-list is not treated as allow-all
validateAllowedNoEmptyCase(command, allowedPatterns) ==
    IF \E i \in 1..Len(allowedPatterns) : matchesPattern(command, allowedPatterns[i])
    THEN Nil
    ELSE ErrNotAllowed(allowedPatterns)

\* validateAllowed, main.go:307-321
validateAllowed(command, allowedPatterns) ==
    IF Len(allowedPatterns) = 0 THEN Nil
    ELSE IF \E i \in 1..Len(allowedPatterns) : matchesPattern(command, allowedPatterns[i])
    THEN Nil
    ELSE ErrNotAllowed(allowedPatterns)

\* a plausible slip: the allow-list is consulted before the block-list
authorizeAllowFirst(command, s) ==
    LET m == validateShellMetacharacters(command, s.AllowShellMetacharacters)
        a == validateAllowed(command, s.AllowedPatterns)
        b == validateNotBlocked(command, s.BlockedPatterns)
    IN  IF m # Nil THEN [err |-> m, checks |-> <<"metacharacters">>]
        ELSE IF a = Nil /\ Len(s.AllowedPatterns) > 0
             THEN [err |-> Nil, checks |-> <<"metacharacters", "allowed">>]
        ELSE IF b # Nil THEN [err |-> b, checks |-> <<"metacharacters", "allowed", "blocked">>]
        ELSE [err |-> a, checks |-> <<"metacharacters", "allowed", "blocked">>]

\* a plausible slip: the metacharacter gate runs after the block-list
authorizeBlockFirst(command, s) ==
    LET m == validateShellMetacharacters(command, s.AllowShellMetacharacters)
        b == validateNotBlocked(command, s.BlockedPatterns)
        a == validateAllowed(command, s.AllowedPatterns)
    IN  IF b # Nil THEN [err |-> b, checks |-> <<"blocked">>]
        ELSE IF m # Nil THEN [err |-> m, checks |-> <<"blocked", "metacharacters">>]
        ELSE [err |-> a, checks |-> <<"blocked", "metacharacters", "allowed">>]

\* the three checks of Execute, main.go:87-100: the first error returns;
\* checks lists the validators that ran
authorize(command, s) ==
    LET m == validateShellMetacharacters(command, s.AllowShellMetacharacters)
        b == validateNotBlocked(command, s.BlockedPatterns)
        a == validateAllowed(command, s.AllowedPatterns)
    IN  IF m # Nil THEN [err |-> m, checks |-> <<"metacharacters">>]
        ELSE IF b # Nil THEN [err |-> b, checks |-> <<"metacharacters", "blocked">>]
        ELSE [err |-> a, checks |-> <<"metacharacters", "blocked", "allowed">>]

----------------------------------------------------------------------------
(* Settings, main.go:31-73                                                 *)

\* var defaultSettings, main.go:41-73
defaultSettings ==
    [ TimeoutSeconds |-> 60,
      DefaultWorkingDir |-> <<>>,
      AllowedPatterns |-> <<
        <<".","/","s","c","r","i","p","t","s","/","*">>,
        <<"g","i","t"," ","*">>,
        <<"g","o"," ","*">>,
        <<"m","a","k","e"," ","*">>,
        <<"n","p","m"," ","*">>,
        <<"l","s"," ","*">>,
        <<"c","a","t"," ","*">>,
        <<"e","c","h","o"," ","*">>,
        <<"p","w","d">>,
        <<"w","h","i","c","h"," ","*">>,
        <<"e","n","v">> >>,
      BlockedPatterns |-> <<
        <<"r","m"," ","-","r","f"," ","/","*">>,
        <<"r","m"," ","-","r","f"," ","~","/","*">>,
        <<"s","u","d","o"," ","*">>,
        <<">"," ","/","d","e","v","/","*">>,
        <<"c","u","r","l"," ","*"," ","|"," ","s","h">>,
        <<"c","u","r","l"," ","*"," ","|"," ","b","a","s","h">>,
        <<"w","g","e","t"," ","*"," ","|"," ","s","h">>,
        <<"w","g","e","t"," ","*"," ","|"," ","b","a","s","h">>,
        <<"c","h","m","o","d"," ","7","7","7"," ","*">>,
        <<":","(",")","{"," ",":","|",":","&"," ","}",";",":">>,
        <<"d","d"," ","i","f","=","*">>,
        <<"m","k","f","s",".","*">>,
        <<"e","v","a","l"," ","*">> >>,
      AllowShellMetacharacters |-> FALSE ]

\* no settings file can be read or parsed at any of the paths loadSettings tries
NoFile == [has |-> {"nofile"}]

\* a decoded settings file: has is the set of keys present; the values are
\* already of the JSON type the key is documented with (number, string,
\* list of strings, boolean)
RawFile(has, t, d, a, b, m, w) ==
    [ has |-> has, timeout_seconds |-> t, default_working_dir |-> d,
      allowed_patterns |-> a, blocked_patterns |-> b,
      allow_shell_metacharacters |-> m, allowed_working_dirs |-> w ]

\* a plausible slip: a non-positive timeout_seconds of the file is taken over
loadLegacySettingsAnyTimeout(raw) ==
    [ defaultSettings EXCEPT
        !.TimeoutSeconds =
            IF "timeout_seconds" \in raw.has THEN raw.timeout_seconds ELSE @ ]

\* loadLegacySettings, main.go:213-253, on a file that was read and decoded.
\* The key allowed_working_dirs is not read: Settings has no such field.
loadLegacySettings(raw) ==
    [ TimeoutSeconds |->
        IF "timeout_seconds" \in raw.has /\ raw.timeout_seconds > 0
        THEN raw.timeout_seconds ELSE defaultSettings.TimeoutSeconds,
      DefaultWorkingDir |->
        IF "default_working_dir" \in raw.has /\ Len(raw.default_working_dir) > 0
        THEN raw.default_working_dir ELSE defaultSettings.DefaultWorkingDir,
      AllowedPatterns |->
        IF "allowed_patterns" \in raw.has /\ Len(raw.allowed_patterns) > 0
        THEN raw.allowed_patterns ELSE defaultSettings.AllowedPatterns,
      BlockedPatterns |->
        IF "blocked_patterns" \in raw.has /\ Len(raw.blocked_patterns) > 0
        THEN raw.blocked_patterns ELSE defaultSettings.BlockedPatterns,
      AllowShellMetacharacters |->
        IF "allow_shell_metacharacters" \in raw.has
        THEN raw.allow_shell_metacharacters
        ELSE defaultSettings.AllowShellMetacharacters ]

\* loadSettings, main.go:255-282: the first file that loads, else the defaults
loadSettings(f) == IF f = NoFile THEN defaultSettings ELSE loadLegacySettings(f)

----------------------------------------------------------------------------
(* Working directory, main.go:102-118 and expandTilde, main.go:323-337     *)

\* filepath.Clean on absolute paths without "." and ".." elements:
\* repeated separators collapse and a trailing separator is dropped
RECURSIVE Clean(_)
Clean(path) ==
    IF Len(path) <= 1 THEN path
    ELSE IF path[Len(path)] = "/" THEN Clean(SubSeq(path, 1, Len(path) - 1))
    ELSE IF \E i \in 1..(Len(path) - 1) : path[i] = "/" /\ path[i + 1] = "/"
    THEN LET i == CHOOSE k \in 1..(Len(path) - 1) : path[k] = "/" /\ path[k + 1] = "/"
         IN Clean(SubSeq(path, 1, i) \o SubSeq(path, i + 2, Len(path)))
    ELSE path

\* filepath.Join(a, b): empty elements are ignored, the result is cleaned
Join(a, b) ==
    IF Len(b) = 0 THEN Clean(a)
    ELSE IF Len(a) = 0 THEN Clean(b)
    ELSE Clean(a \o <<"/">> \o b)

\* expandTilde; home = <<>> stands for os.UserHomeDir failing
expandTilde(path, home) ==
    IF path = <<"~">> THEN (IF Len(home) > 0 THEN home ELSE path)
    ELSE IF HasPrefix(path, <<"~", "/">>) /\ Len(home) > 0
    THEN Join(home, SubSeq(path, 3, Len(path)))
    ELSE path

\* a plausible slip: the agent-context directory is preferred to the
\* configured default
resolveWorkingDirAgentFirst(p, s, e) ==
    IF Len(p.WorkingDir) > 0 THEN [dir |-> p.WorkingDir, err |-> Nil]
    ELSE IF Len(e.AgentDir) > 0 THEN [dir |-> e.AgentDir, err |-> Nil]
    ELSE IF Len(s.DefaultWorkingDir) > 0
    THEN [dir |-> expandTilde(s.DefaultWorkingDir, e.home), err |-> Nil]
    ELSE IF Len(e.cwd) > 0 THEN [dir |-> e.cwd, err |-> Nil]
    ELSE [dir |-> <<>>, err |-> ErrGetwd]

\* the directory chosen by main.go:102-118; err is set when os.Getwd fails
\* (e.cwd = <<>>) and nothing else named a directory
resolveWorkingDir(p, s, e) ==
    IF Len(p.WorkingDir) > 0 THEN [dir |-> p.WorkingDir, err |-> Nil]
    ELSE IF Len(s.DefaultWorkingDir) > 0
    THEN [dir |-> expandTilde(s.DefaultWorkingDir, e.home), err |-> Nil]
    ELSE IF Len(e.AgentDir) > 0 THEN [dir |-> e.AgentDir, err |-> Nil]
    ELSE IF Len(e.cwd) > 0 THEN [dir |-> e.cwd, err |-> Nil]
    ELSE [dir |-> <<>>, err |-> ErrGetwd]

----------------------------------------------------------------------------
(* Timeout, main.go:120-130                                                *)

\* a plausible slip: the 300 s cap is missing
effectiveTimeoutNoCap(requested, policy) ==
    LET t1 == IF requested <= 0 THEN policy ELSE requested
    IN  IF t1 <= 0 THEN 60 ELSE t1

effectiveTimeout(requested, policy) ==
    LET t1 == IF requested <= 0 THEN policy ELSE requested
        t2 == IF t1 <= 0 THEN 60 ELSE t1
    IN  IF t2 > 300 THEN 300 ELSE t2

----------------------------------------------------------------------------
(* executeCommand, main.go:339-403                                         *)

\* the program exec.CommandContext is given, main.go:346-367
shellProgram(shell, goos) ==
    CASE shell \in {"powershell", "pwsh"} -> "powershell"
      [] shell = "cmd" -> "cmd"
      [] shell = "bash" -> "bash"
      [] shell = "zsh" -> "zsh"
      [] shell = "sh" -> "sh"
      [] OTHER -> IF goos = "windows" THEN "cmd" ELSE "sh"

\* errors of cmd.Run
ExitError(code) == [kind |-> "ExitError", code |-> code]
LaunchError(why) == [kind |-> "LaunchError", why |-> why]

\* context.WithTimeout(ctx, T), main.go:342: done at once when ctx is done;
\* timer records that it was the T-second timer of this request that fired,
\* childRunning that the child was running at that moment
withTimeout(c) ==
    [err |-> IF c = "active" THEN "nil" ELSE c, timer |-> FALSE, childRunning |-> FALSE]

\* cmd.Start inside cmd.Run, main.go:376: a done context, a program that is
\* not installed or a directory that does not exist fail the launch
startError(shell, dir, e, ec) ==
    IF shellProgram(shell, e.goos) \notin e.installed THEN LaunchError("not found")
    ELSE IF ec.err # "nil" THEN LaunchError(ec.err)
    ELSE IF dir \notin e.dirs THEN LaunchError("chdir")
    ELSE Nil

NoResult == [kind |-> "none"]

\* a plausible slip: every failure of cmd.Run is reported with exit_code -1
buildResultMinusOne(command, dir, timeoutSeconds, err, ctxErr) ==
    [ kind |-> "result", command |-> command, working_dir |-> dir,
      exit_code |-> IF err = Nil THEN 0 ELSE 0 - 1,
      error |-> IF err = Nil THEN [kind |-> "absent"]
                ELSE IF ctxErr = "DeadlineExceeded"
                THEN [kind |-> "timed out", seconds |-> timeoutSeconds]
                ELSE [kind |-> "text", of |-> err] ]

\* the result map of main.go:378-398, from the error of cmd.Run and the
\* value of execCtx.Err() at line 388
buildResult(command, dir, timeoutSeconds, err, ctxErr) ==
    [ kind |-> "result", command |-> command, working_dir |-> dir,
      exit_code |->
        IF err = Nil THEN 0
        ELSE IF ctxErr = "DeadlineExceeded" THEN 0 - 1
        ELSE IF err.kind = "ExitError" THEN err.code
        ELSE 0 - 1,
      error |->
        IF err = Nil THEN [kind |-> "absent"]
        ELSE IF ctxErr = "DeadlineExceeded"
        THEN [kind |-> "timed out", seconds |-> timeoutSeconds]
        ELSE [kind |-> "text", of |-> err] ]

\* what cmd.Wait reports for the child: nil on a zero exit, an ExitError on a
\* non-zero exit, an ExitError with ExitCode() = -1 when a signal ended it
waitError(c) ==
    IF c.state = "killed" THEN ExitError(0 - 1)
    ELSE IF c.code = 0 THEN Nil
    ELSE ExitError(c.code)

NoChild == [state |-> "none", code |-> 0]

----------------------------------------------------------------------------
(* Execute, main.go:78-139, up to the point where cmd.Run blocks.          *)

NoSettings == [loaded |-> FALSE]
NoParams == [called |-> FALSE]

\* main.go:87-130, once the settings s are loaded: the checks in the order
\* of the code; the first error returns. steps lists what ran.
checked(p, s, e, st) ==
    LET auth == authorize(p.Command, s)
        wd == resolveWorkingDir(p, s, e)
    IN  IF auth.err # Nil
        THEN [err |-> auth.err, steps |-> st \o auth.checks,
              settings |-> s, dir |-> <<>>, timeout |-> 0]
        ELSE IF wd.err # Nil
        THEN [err |-> wd.err, steps |-> st \o auth.checks \o <<"workingDir">>,
              settings |-> s, dir |-> <<>>, timeout |-> 0]
        ELSE [err |-> Nil, steps |-> st \o auth.checks \o <<"workingDir", "timeout">>,
              settings |-> s, dir |-> wd.dir,
              timeout |-> effectiveTimeout(p.TimeoutSeconds, s.TimeoutSeconds)]

\* a plausible slip: the settings are loaded before the command is looked at
prologueLoadFirst(p, f, e) ==
    IF Len(p.Command) = 0
    THEN [err |-> ErrEmptyCommand, steps |-> <<"loadSettings", "command">>,
          settings |-> loadSettings(f), dir |-> <<>>, timeout |-> 0]
    ELSE checked(p, loadSettings(f), e, <<"loadSettings", "command">>)

\* a plausible slip: the error of the three policy checks is dropped
prologueNoReturn(p, f, e) ==
    IF Len(p.Command) = 0
    THEN [err |-> ErrEmptyCommand, steps |-> <<"command">>,
          settings |-> NoSettings, dir |-> <<>>, timeout |-> 0]
    ELSE LET s == loadSettings(f)
             wd == resolveWorkingDir(p, s, e)
         IN  [err |-> wd.err,
              steps |-> <<"command", "loadSettings">> \o authorize(p.Command, s).checks
                        \o <<"workingDir", "timeout">>,
              settings |-> s, dir |-> wd.dir,
              timeout |-> effectiveTimeout(p.TimeoutSeconds, s.TimeoutSeconds)]

\* main.go:80-130: an empty command returns before anything else runs
prologue(p, f, e) ==
    IF Len(p.Command) = 0
    THEN [err |-> ErrEmptyCommand, steps |-> <<"command">>,
          settings |-> NoSettings, dir |-> <<>>, timeout |-> 0]
    ELSE checked(p, loadSettings(f), e, <<"command", "loadSettings">>)

\* Execute is called with params p and a context in state c
Call(p, c) ==
    /\ pc = "idle"
    /\ params' = p
    /\ ctx' = c
    /\ LET pre == prologue(p, file, env)
           ec == withTimeout(c)
           se == startError(p.Shell, pre.dir, env, ec)
       IN  /\ settings' = pre.settings
           /\ workingDir' = pre.dir
           /\ timeout' = pre.timeout
           /\ IF pre.err # Nil
              THEN /\ steps' = pre.steps
                   /\ ret' = [err |-> pre.err, result |-> NoResult]
                   /\ pc' = "done"
                   /\ UNCHANGED <<child, execCtx, runErr>>
              ELSE IF se # Nil
              THEN /\ steps' = pre.steps \o <<"executeCommand">>
                   /\ execCtx' = ec
                   /\ runErr' = se
                   /\ ret' = [err |-> Nil,
                              result |-> buildResult(p.Command, pre.dir, pre.timeout, se, ec.err)]
                   /\ pc' = "done"
                   /\ UNCHANGED child
              ELSE /\ steps' = pre.steps \o <<"executeCommand", "spawn">>
                   /\ execCtx' = ec
                   /\ child' = [state |-> "running", code |-> 0]
                   /\ pc' = "running"
                   /\ UNCHANGED <<ret, runErr>>
    /\ UNCHANGED <<file, env, desc>>

----------------------------------------------------------------------------
(* While cmd.Run blocks: the child, its descendant, the two contexts.      *)

\* the child starts a process of its own, which inherits the output pipes
ChildSpawnsDescendant ==
    /\ pc = "running" /\ child.state = "running" /\ desc = "none"
    /\ desc' = "holding"
    /\ UNCHANGED <<pc, file, env, params, settings, workingDir, timeout, steps, ret,
                   child, ctx, execCtx, runErr>>

\* the descendant closes its copies of the output pipes and keeps running
DescendantDetaches ==
    /\ desc = "holding"
    /\ desc' = "detached"
    /\ UNCHANGED <<pc, file, env, params, settings, workingDir, timeout, steps, ret,
                   child, ctx, execCtx, runErr>>

DescendantExits ==
    /\ desc \in {"holding", "detached"}
    /\ desc' = "gone"
    /\ UNCHANGED <<pc, file, env, params, settings, workingDir, timeout, steps, ret,
                   child, ctx, execCtx, runErr>>

\* the child ends by itself
ChildExits(code) ==
    /\ pc = "running" /\ child.state = "running"
    /\ child' = [state |-> "exited", code |-> code]
    /\ UNCHANGED <<pc, file, env, params, settings, workingDir, timeout, steps, ret,
                   desc, ctx, execCtx, runErr>>

\* the T-second timer of context.WithTimeout fires, main.go:342
TimerFires ==
    /\ pc = "running" /\ execCtx.err = "nil"
    /\ execCtx' = [err |-> "DeadlineExceeded", timer |-> TRUE,
                   childRunning |-> child.state = "running"]
    /\ UNCHANGED <<pc, file, env, params, settings, workingDir, timeout, steps, ret,
                   child, desc, ctx, runErr>>

\* the caller's context ends (cancelled, or its own earlier deadline passes);
\* a derived context that is not yet done takes over its error
CallerContextEnds(how) ==
    /\ pc = "running" /\ ctx = "active"
    /\ ctx' = how
    /\ execCtx' = IF execCtx.err = "nil"
                  THEN [err |-> how, timer |-> FALSE, childRunning |-> FALSE]
                  ELSE execCtx
    /\ UNCHANGED <<pc, file, env, params, settings, workingDir, timeout, steps, ret,
                   child, desc, runErr>>

\* exec.CommandContext: once execCtx is done, os.Process.Kill on the child.
\* No process group is set up (cmd.SysProcAttr is left nil), so the signal
\* reaches the child alone.
Kill ==
    /\ pc = "running" /\ execCtx.err # "nil" /\ child.state = "running"
    /\ child' = [state |-> "killed", code |-> 0 - 1]
    /\ UNCHANGED <<pc, file, env, params, settings, workingDir, timeout, steps, ret,
                   desc, ctx, execCtx, runErr>>

\* cmd.Run returns, main.go:376, once the child has ended and the copying of
\* stdout and stderr into the buffers has seen the pipes closed by every
\* holder; main.go:378-402 then build and return the result
Return ==
    /\ pc = "running" /\ child.state \in {"exited", "killed"} /\ desc # "holding"
    /\ runErr' = waitError(child)
    /\ ret' = [err |-> Nil,
               result |-> buildResult(params.Command, workingDir, timeout,
                                      waitError(child), execCtx.err)]
    /\ steps' = steps \o <<"return">>
    /\ pc' = "done"
    /\ UNCHANGED <<file, env, params, settings, workingDir, timeout,
                   child, desc, ctx, execCtx>>

\* the plugin is ready for the next call
NextRequest ==
    /\ pc = "done"
    /\ pc' = "idle"
    /\ params' = NoParams
    /\ settings' = NoSettings
    /\ workingDir' = <<>>
    /\ timeout' = 0
    /\ steps' = <<>>
    /\ ret' = [err |-> Nil, result |-> NoResult]
    /\ child' = NoChild
    /\ desc' = "none"
    /\ ctx' = "active"
    /\ execCtx' = withTimeout("active")
    /\ runErr' = Nil
    /\ UNCHANGED <<file, env>>

Running ==
    \/ ChildSpawnsDescendant
    \/ DescendantDetaches
    \/ DescendantExits
    \/ \E code \in {0, 1} : ChildExits(code)
    \/ TimerFires
    \/ \E how \in {"Canceled", "DeadlineExceeded"} : CallerContextEnds(how)
    \/ Kill
    \/ Return
    \/ NextRequest

----------------------------------------------------------------------------
(* The requests, settings files and environments the model draws from.     *)

DirP == <<"/", "p">>          \* the project directory
DirE == <<"/", "e">>          \* another directory that exists
DirX == <<"/", "x">>          \* a directory that does not exist
DirH == <<"/", "h">>          \* the home directory
DirHP == <<"/", "h", "/", "p">>

Envs ==
    { [AgentDir |-> DirP, cwd |-> DirE, home |-> DirH, goos |-> "linux",
       dirs |-> {DirP, DirE, DirH, DirHP}, installed |-> {"sh", "bash"}],
      [AgentDir |-> <<>>, cwd |-> DirE, home |-> DirH, goos |-> "linux",
       dirs |-> {DirP, DirE, DirH, DirHP}, installed |-> {"sh", "bash"}],
      [AgentDir |-> <<>>, cwd |-> <<>>, home |-> DirH, goos |-> "linux",
       dirs |-> {DirP, DirE, DirH, DirHP}, installed |-> {"sh", "bash"}] }

Files ==
    { NoFile,
      RawFile({"default_working_dir", "allowed_working_dirs"},
              0, <<"~", "/", "p">>, <<>>, <<>>, FALSE, <<DirP, DirH>>),
      RawFile({"timeout_seconds", "allowed_patterns", "blocked_patterns",
               "allow_shell_metacharacters", "allowed_working_dirs"},
              400, <<>>, << <<"l", "*">> >>, << <<"*", ";">> >>, TRUE, <<DirP>>) }

Commands ==
    { <<>>, <<"l", "s">>, <<"l", "s", ";">>, <<"s", "u", "d", "o">>, <<"l", "x">> }

Requests ==
    [ Command : Commands, WorkingDir : {<<>>, DirP, DirE, DirX},
      TimeoutSeconds : {0, 5}, Shell : {"", "pwsh"} ]

Contexts == {"active", "Canceled", "DeadlineExceeded"}

Idle ==
    /\ pc = "idle"
    /\ params = NoParams
    /\ settings = NoSettings
    /\ workingDir = <<>>
    /\ timeout = 0
    /\ steps = <<>>
    /\ ret = [err |-> Nil, result |-> NoResult]
    /\ child = NoChild
    /\ desc = "none"
    /\ ctx = "active"
    /\ execCtx = withTimeout("active")
    /\ runErr = Nil

Init == Idle /\ file \in Files /\ env \in Envs

Next == (\E p \in Requests, c \in Contexts : Call(p, c)) \/ Running

Spec == Init /\ [][Next]_vars

\* the executor's own steps are taken when they can be: the goroutine that
\* watches execCtx kills the child, and cmd.Run returns when nothing blocks
\* it. Nothing obliges a child or a descendant to end.
FairSpec == Spec /\ WF_vars(Kill) /\ WF_vars(Return)

----------------------------------------------------------------------------
(* The timeout of a request, over timeouts around 0, 60 and 300.           *)

TimeoutValues == {0 - 1, 0, 1, 59, 60, 61, 299, 300} \cup (301..(300 + Over))

TimeoutFiles ==
    { NoFile, RawFile({}, 0, <<>>, <<>>, <<>>, FALSE, <<>>) }
    \cup { RawFile({"timeout_seconds"}, t, <<>>, <<>>, <<>>, FALSE, <<>>) :
             t \in TimeoutValues }

TimeoutRequests ==
    [ Command : {<<"l", "s">>}, WorkingDir : {<<>>},
      TimeoutSeconds : TimeoutValues, Shell : {""} ]

InitTimeout ==
    /\ Idle
    /\ file \in TimeoutFiles
    /\ env \in {e \in Envs : Len(e.AgentDir) > 0}

NextTimeout == (\E p \in TimeoutRequests : Call(p, "active")) \/ Running

SpecTimeout == InitTimeout /\ [][NextTimeout]_vars

----------------------------------------------------------------------------
(* The three policy checks on their own, over every command and every      *)
(* policy within the bounds.                                               *)

Alphabet == {"l", " ", ";", "x"}

PatternPool == { <<"l", " ", "*">>, <<"*", "x">>, <<"l", "*", "x">> }

Strings(alphabet, n) == UNION { [1..k -> alphabet] : k \in 0..n }

\* the lists of at most n patterns, none of them twice
Lists(pool, n) ==
    { q \in Strings(pool, n) : \A i, j \in 1..Len(q) : q[i] = q[j] => i = j }

\* one command for each operator containsShellMetacharacters looks for and
\* for the newline, and commands that hold only a part of the operator $(
MetaCommands ==
    { <<"l">> \o operators[i] \o <<"x">> : i \in 1..Len(operators) }
    \cup { <<"l", "\n", "x">>, <<"l", "$">>, <<"(", "x">>, <<"$", "x", "(">> }

PolicyCommands == Strings(Alphabet, MaxLen) \cup MetaCommands

PolicySettings ==
    { [defaultSettings EXCEPT !.AllowedPatterns = a, !.BlockedPatterns = b,
                              !.AllowShellMetacharacters = m] :
        a \in Lists(PatternPool, MaxPatterns),
        b \in Lists(PatternPool, MaxPatterns),
        m \in BOOLEAN }

\* the inputs of the three checks: any command, any policy
InitPolicy ==
    /\ pc = "policy"
    /\ params \in [ Command : PolicyCommands, WorkingDir : {<<>>},
                    TimeoutSeconds : {0}, Shell : {""} ]
    /\ settings \in PolicySettings
    /\ file = NoFile
    /\ env \in {e \in Envs : Len(e.AgentDir) > 0}
    /\ workingDir = <<>>
    /\ timeout = 0
    /\ steps = <<>>
    /\ ret = [err |-> Nil, result |-> NoResult]
    /\ child = NoChild
    /\ desc = "none"
    /\ ctx = "active"
    /\ execCtx = withTimeout("active")
    /\ runErr = Nil

\* lines 87-100 of Execute applied to the command and the policy
Authorize ==
    /\ pc = "policy"
    /\ steps' = authorize(params.Command, settings).checks
    /\ ret' = [err |-> authorize(params.Command, settings).err, result |-> NoResult]
    /\ pc' = "authorized"
    /\ UNCHANGED <<file, env, params, settings, workingDir, timeout,
                   child, desc, ctx, execCtx, runErr>>

NextPolicy == Authorize

SpecPolicy == InitPolicy /\ [][NextPolicy]_vars

----------------------------------------------------------------------------
(* Claims about the policy checks, under SpecPolicy.                       *)

\* the command holds a newline or one of && || | ; & > < backquote $(
\* (stated on the characters, apart from the scanner of the code)
HoldsMetacharacter(command) ==
    \/ \E i \in 1..Len(command) :
          command[i] \in {"\n", "|", ";", "&", ">", "<", Backquote}
    \/ \E i \in 1..(Len(command) - 1) : command[i] = "$" /\ command[i + 1] = "("

PassedGate == settings.AllowShellMetacharacters \/ ~HoldsMetacharacter(params.Command)

MatchesBlocked ==
    \E i \in 1..Len(settings.BlockedPatterns) :
        matchesPattern(params.Command, settings.BlockedPatterns[i])

MatchesAllowed ==
    \E i \in 1..Len(settings.AllowedPatterns) :
        matchesPattern(params.Command, settings.AllowedPatterns[i])

\* C1: a command that matches a blocked and an allowed pattern, and that the
\* metacharacter gate lets through, is denied with BlockedPattern (naming a
\* configured pattern the command matches): never authorized, never NotAllowed.
C1_BlockListPrecedence ==
    (pc = "authorized" /\ PassedGate /\ MatchesBlocked /\ MatchesAllowed)
        => /\ ret.err.kind = "BlockedPattern"
           /\ \E i \in 1..Len(settings.BlockedPatterns) :
                 /\ ret.err.pattern = settings.BlockedPatterns[i]
                 /\ matchesPattern(params.Command, ret.err.pattern)

C1_Witness ==
    /\ pc = "authorized" /\ PassedGate /\ MatchesBlocked /\ MatchesAllowed
    /\ Len(settings.BlockedPatterns) = 2
    /\ ret.err.kind = "BlockedPattern"

\* C2: with allowShellMetacharacters false, a command holding a metacharacter
\* is denied with MetacharactersRejected and neither list is consulted, also
\* when it matches a blocked pattern; with allowShellMetacharacters true the
\* gate rejects nothing and the block-list, then the allow-list, decide.
C2_MetacharacterGate ==
    pc = "authorized" =>
        /\ (~settings.AllowShellMetacharacters /\ HoldsMetacharacter(params.Command))
              => (ret.err = ErrMetacharacters /\ steps = <<"metacharacters">>)
        /\ settings.AllowShellMetacharacters
              => /\ ret.err.kind # "MetacharactersRejected"
                 /\ ret.err.kind = (IF MatchesBlocked THEN "BlockedPattern"
                                    ELSE IF Len(settings.AllowedPatterns) = 0 \/ MatchesAllowed
                                    THEN "nil" ELSE "NotAllowed")

C2_Witness ==
    /\ pc = "authorized"
    /\ ~settings.AllowShellMetacharacters
    /\ HoldsMetacharacter(params.Command)
    /\ MatchesBlocked
    /\ ret.err = ErrMetacharacters

\* C5: for a command the gate lets through and no blocked pattern matches,
\* an empty allow-list authorizes; a non-empty one authorizes exactly when
\* one of its patterns matches, and otherwise denies with NotAllowed
\* carrying the whole allow-list.
C5_AllowListDecision ==
    (pc = "authorized" /\ PassedGate /\ ~MatchesBlocked)
        => IF Len(settings.AllowedPatterns) = 0 THEN ret.err = Nil
           ELSE /\ (ret.err = Nil) <=> MatchesAllowed
                /\ ~MatchesAllowed => ret.err = ErrNotAllowed(settings.AllowedPatterns)

C5_Witness ==
    /\ pc = "authorized" /\ PassedGate /\ ~MatchesBlocked
    /\ Len(settings.AllowedPatterns) = 2
    /\ ~MatchesAllowed
    /\ ret.err = ErrNotAllowed(settings.AllowedPatterns)

\* the empty allow-list authorizing a command that no pattern would match
C5_EmptyAllowListReached ==
    /\ pc = "authorized" /\ PassedGate /\ ~MatchesBlocked
    /\ Len(settings.AllowedPatterns) = 0
    /\ Len(params.Command) > 0
    /\ ret.err = Nil

----------------------------------------------------------------------------
(* Claims about a request, under Spec.                                     *)

AuthorizationFailures ==
    {"EmptyCommand", "MetacharactersRejected", "BlockedPattern", "NotAllowed",
     "WorkingDirNotAllowed"}

\* the policy in force for the request, read from the file as Execute reads it
Policy == loadSettings(file)

\* one of the checks of Execute fails for the request (stated on the request
\* and the policy, apart from what Execute returned)
CheckFails ==
    \/ Len(params.Command) = 0
    \/ ~Policy.AllowShellMetacharacters /\ HoldsMetacharacter(params.Command)
    \/ \E i \in 1..Len(Policy.BlockedPatterns) :
          matchesPattern(params.Command, Policy.BlockedPatterns[i])
    \/ /\ Len(Policy.AllowedPatterns) > 0
       /\ \A i \in 1..Len(Policy.AllowedPatterns) :
             ~matchesPattern(params.Command, Policy.AllowedPatterns[i])

Spawned == child.state # "none"

C4_EmptyCommandFirst ==
    (pc # "idle" /\ Len(params.Command) = 0)
        => /\ pc = "done"
           /\ ret = [err |-> ErrEmptyCommand, result |-> NoResult]
           /\ steps = <<"command">>
           /\ settings = NoSettings
           /\ workingDir = <<>>
           /\ ~Spawned

C4_Witness ==
    /\ pc = "done"
    /\ Len(params.Command) = 0
    /\ file # NoFile
    /\ Len(params.WorkingDir) > 0
    /\ ret.err = ErrEmptyCommand

\* C6: when the configuration lists allowed working directories, a child
\* process exists only in a directory that has one of them as a prefix.
C6_WorkingDirContainment ==
    (Spawned /\ "allowed_working_dirs" \in file.has /\ Len(file.allowed_working_dirs) > 0)
        => \E i \in 1..Len(file.allowed_working_dirs) :
              HasPrefix(workingDir, file.allowed_working_dirs[i])

----------------------------------------------------------------------------
(* Claim about the timeout, under SpecTimeout.                             *)

\* the timeout the policy names: timeout_seconds of the settings file
FilePolicyTimeout ==
    IF "timeout_seconds" \in file.has THEN file.timeout_seconds ELSE 60

\* C7: the timeout handed to the executor lies in 1..300; it is the request
\* value when that is in 1..300, 300 when the chosen value is above 300, the
\* policy value when the request value is <= 0, and 60 when both are <= 0.
C7_TimeoutClamp ==
    "executeCommand" \in {steps[i] : i \in 1..Len(steps)} =>
        LET r == params.TimeoutSeconds
            chosen == IF r > 0 THEN r ELSE FilePolicyTimeout
        IN  /\ timeout \in 1..300
            /\ r \in 1..300 => timeout = r
            /\ chosen > 300 => timeout = 300
            /\ (r <= 0 /\ FilePolicyTimeout \in 1..300) => timeout = FilePolicyTimeout
            /\ (r <= 0 /\ FilePolicyTimeout <= 0) => timeout = 60

C7_Witness ==
    /\ pc = "running"
    /\ params.TimeoutSeconds <= 0
    /\ "timeout_seconds" \in file.has
    /\ file.timeout_seconds > 300
    /\ timeout = 300

----------------------------------------------------------------------------
(* Claims about the execution, under Spec and FairSpec.                    *)

TimedOutResult ==
    /\ ret.result.kind = "result"
    /\ ret.result.exit_code = 0 - 1
    /\ ret.result.error = [kind |-> "timed out", seconds |-> timeout]

\* C8: when the T-second timer of the request has fired with the child still
\* running, so that the child had to be killed, the executor eventually
\* returns a result with exit_code -1 and the error "command timed out after
\* T seconds"; it does not go on waiting for what the command started.
C8_TimeoutOutcome ==
    (pc = "running" /\ child.state = "killed" /\ execCtx.timer)
        ~> (pc = "done" /\ TimedOutResult)

\* C9: the executor returns no error; the error field is present exactly when
\* the outcome is not a clean zero exit; exit_code is 0 exactly when the
\* error field is absent; exit_code is the child's own exit code when the
\* child exited non-zero, and -1 on a timeout and on a launch failure.
C9_ResultEncoding ==
    (pc = "done" /\ ret.result.kind = "result") =>
        /\ ret.err = Nil
        /\ (ret.result.error.kind = "absent")
              <=> (child.state = "exited" /\ child.code = 0)
        /\ (ret.result.exit_code = 0) <=> (ret.result.error.kind = "absent")
        /\ (child.state = "exited" /\ child.code # 0)
              => ret.result.exit_code = child.code
        /\ (child.state = "killed" /\ execCtx.timer) => ret.result.exit_code = 0 - 1
        /\ ~Spawned => ret.result.exit_code = 0 - 1

\* C10: once the executor has returned for a request whose child was
\* terminated because the deadline fired or the caller cancelled, no process
\* started for the request is running: neither the child nor a descendant.
C10_NoOrphans ==
    (pc = "done" /\ child.state = "killed")
        => desc \notin {"holding", "detached"}

----------------------------------------------------------------------------
(* matchesPattern on its own, over every command and every pattern within  *)
(* the bounds.                                                             *)

MatchAlphabet == {"l", " ", "x", "*"}

\* the inputs of matchesPattern: any command, any pattern
InitMatch ==
    /\ pc = "pattern"
    /\ params \in [ Command : Strings(MatchAlphabet, MaxLen), WorkingDir : {<<>>},
                    TimeoutSeconds : {0}, Shell : {""} ]
    /\ settings \in { [defaultSettings EXCEPT !.AllowedPatterns = <<p>>] :
                        p \in Strings(MatchAlphabet, MaxLen + 1) }
    /\ file = NoFile
    /\ env \in {e \in Envs : Len(e.AgentDir) > 0}
    /\ workingDir = <<>>
    /\ timeout = 0
    /\ steps = <<>>
    /\ ret = [err |-> Nil, result |-> NoResult]
    /\ child = NoChild
    /\ desc = "none"
    /\ ctx = "active"
    /\ execCtx = withTimeout("active")
    /\ runErr = Nil

\* matchesPattern applied to the command and the pattern
Match ==
    /\ pc = "pattern"
    /\ ret' = [err |-> Nil,
               result |-> [kind |-> "match",
                           matched |-> matchesPattern(params.Command,
                                                      settings.AllowedPatterns[1])]]
    /\ pc' = "matched"
    /\ UNCHANGED <<file, env, params, settings, workingDir, timeout, steps,
                   child, desc, ctx, execCtx, runErr>>

NextMatch == Match

SpecMatch == InitMatch /\ [][NextMatch]_vars

----------------------------------------------------------------------------
(* Claims about matchesPattern, under SpecMatch.                           *)

ThePattern == settings.AllowedPatterns[1]

\* the prefix P of a pattern P + "*"
PrefixOf(pattern) == SubSeq(pattern, 1, Len(pattern) - 1)

EndsInStar(pattern) == Len(pattern) > 0 /\ pattern[Len(pattern)] = "*"

HoldsStar(s) == \E i \in 1..Len(s) : s[i] = "*"

\* the command is y + P for a non-empty y
ExtendsLeft(command, P) ==
    /\ Len(command) > Len(P)
    /\ SubSeq(command, Len(command) - Len(P) + 1, Len(command)) = P

\* the command is P + x for some x
ExtendsRight(command, P) ==
    /\ Len(command) >= Len(P)
    /\ SubSeq(command, 1, Len(P)) = P

\* C11 as stated: for a pattern P + "*", the command P matches, every P + x
\* matches, and no y + P with a non-empty y matches.
C11_PrefixRuleAsStated ==
    (pc = "matched" /\ EndsInStar(ThePattern)) =>
        LET P == PrefixOf(ThePattern) IN
        /\ params.Command = P => ret.result.matched
        /\ ExtendsRight(params.Command, P) => ret.result.matched
        /\ ExtendsLeft(params.Command, P) => ~ret.result.matched

\* C11 as amended: for a pattern P + "*", the command P matches and every
\* P + x matches; when P holds no further "*", a command y + P with a
\* non-empty y matches exactly when y + P itself starts with P.
C11_PrefixRule ==
    (pc = "matched" /\ EndsInStar(ThePattern)) =>
        LET P == PrefixOf(ThePattern) IN
        /\ params.Command = P => ret.result.matched
        /\ ExtendsRight(params.Command, P) => ret.result.matched
        /\ (ExtendsLeft(params.Command, P) /\ ~HoldsStar(P))
              => (ret.result.matched <=> ExtendsRight(params.Command, P))

C11_Witness ==
    /\ pc = "matched" /\ EndsInStar(ThePattern)
    /\ Len(PrefixOf(ThePattern)) = 2
    /\ ~HoldsStar(PrefixOf(ThePattern))
    /\ ExtendsLeft(params.Command, PrefixOf(ThePattern))
    /\ ~ExtendsRight(params.Command, PrefixOf(ThePattern))
    /\ ~ret.result.matched

\* the pattern is C + " *" for a command word C (a string without "*")
IsWordPattern(pattern) ==
    /\ Len(pattern) >= 2
    /\ pattern[Len(pattern)] = "*"
    /\ pattern[Len(pattern) - 1] = " "
    /\ ~HoldsStar(SubSeq(pattern, 1, Len(pattern) - 2))

WordOf(pattern) == SubSeq(pattern, 1, Len(pattern) - 2)

\* C12: for a pattern C + " *", the bare command C matches, every command
\* C + " " + args matches, and a command that continues C with anything but
\* a space does not match.
C12_BareCommand ==
    (pc = "matched" /\ IsWordPattern(ThePattern)) =>
        LET C == WordOf(ThePattern) IN
        /\ params.Command = C => ret.result.matched
        /\ ExtendsRight(params.Command, C \o <<" ">>) => ret.result.matched
        /\ ( /\ ExtendsRight(params.Command, C)
             /\ Len(params.Command) > Len(C)
             /\ params.Command[Len(C) + 1] # " " ) => ~ret.result.matched

C12_Witness ==
    /\ pc = "matched" /\ IsWordPattern(ThePattern)
    /\ Len(WordOf(ThePattern)) = 2
    /\ params.Command = WordOf(ThePattern)
    /\ ret.result.matched

\* a command that continues the word without the space, and is refused
C12_ExtensionRefused ==
    /\ pc = "matched" /\ IsWordPattern(ThePattern)
    /\ Len(WordOf(ThePattern)) = 2
    /\ ExtendsRight(params.Command, WordOf(ThePattern))
    /\ Len(params.Command) = 3
    /\ ~ret.result.matched

----------------------------------------------------------------------------
(* The working directory of a request, over every combination of a         *)
(* request directory, a configured default, an agent directory, a current  *)
(* directory and a home directory being there or not.                      *)

DirFiles ==
    { NoFile }
    \cup { RawFile({"default_working_dir"}, 0, d, <<>>, <<>>, FALSE, <<>>) :
             d \in { <<>>, <<"~">>, <<"~", "/", "p">>, <<"~", "/">>, <<"~", "x">>, DirP } }

DirEnvs ==
    { [AgentDir |-> a, cwd |-> c, home |-> h, goos |-> "linux",
       dirs |-> {DirP, DirE, DirH, DirHP}, installed |-> {"sh", "bash"}] :
        a \in {<<>>, DirP}, c \in {<<>>, DirE}, h \in {<<>>, DirH} }

DirRequests ==
    [ Command : {<<"l", "s">>}, WorkingDir : {<<>>, DirE, DirX},
      TimeoutSeconds : {0}, Shell : {""} ]

InitDir == Idle /\ file \in DirFiles /\ env \in DirEnvs

NextDir == (\E p \in DirRequests : Call(p, "active")) \/ Running

SpecDir == InitDir /\ [][NextDir]_vars

\* the default working directory the settings file configures (<<>>: none)
ConfiguredDefault ==
    IF "default_working_dir" \in file.has THEN file.default_working_dir ELSE <<>>

\* a leading ~ or ~/ replaced by the home directory
ExpandHome(d, home) ==
    IF d = <<"~">> THEN home
    ELSE IF Len(d) >= 2 /\ d[1] = "~" /\ d[2] = "/"
    THEN Clean(home \o SubSeq(d, 2, Len(d)))
    ELSE d

Resolved == "workingDir" \in {steps[i] : i \in 1..Len(steps)}

\* C13: the directory handed to the child is the request's directory when
\* that is non-empty; otherwise the configured default, a leading ~ or ~/
\* expanded to the home directory, when one is configured; otherwise the
\* agent-context directory when that is non-empty; otherwise the current
\* directory of the process; and when that cannot be obtained the request
\* fails with the resolution error and no process is started.
C13_WorkingDirOrder ==
    Resolved =>
        IF Len(params.WorkingDir) > 0 THEN workingDir = params.WorkingDir /\ ret.err = Nil
        ELSE IF Len(ConfiguredDefault) > 0
        THEN /\ Len(env.home) > 0 => workingDir = ExpandHome(ConfiguredDefault, env.home)
             /\ ret.err = Nil
        ELSE IF Len(env.AgentDir) > 0 THEN workingDir = env.AgentDir /\ ret.err = Nil
        ELSE IF Len(env.cwd) > 0 THEN workingDir = env.cwd /\ ret.err = Nil
        ELSE /\ pc = "done"
             /\ ret = [err |-> ErrGetwd, result |-> NoResult]
             /\ ~Spawned

C13_Witness ==
    /\ pc = "running"
    /\ Len(params.WorkingDir) = 0
    /\ ConfiguredDefault = <<"~", "/", "p">>
    /\ Len(env.AgentDir) > 0
    /\ workingDir = DirHP
    /\ child.state = "running"

\* the last fallback failing: no directory anywhere, os.Getwd fails
C13_GetwdFailureReached ==
    /\ pc = "done"
    /\ ret.err = ErrGetwd
    /\ ~Spawned

----------------------------------------------------------------------------
(* What a result says about a timeout, against what happened.              *)

\* the T-second deadline of this request fired while the child was running
RealTimeout == execCtx.timer /\ execCtx.childRunning

\* C14: a result with the error "command timed out after T seconds" and
\* exit_code -1 is produced only if the child was still running when the
\* request's own T-second deadline fired: a child that exited non-zero by
\* itself before the deadline is reported with its own exit code, and the
\* end of the caller's context is not reported as a T-second timeout.
C14_TimeoutOnlyWhenReal ==
    (pc = "done" /\ ret.result.kind = "result") =>
        /\ ret.result.error.kind = "timed out" => RealTimeout
        /\ (child.state = "exited" /\ child.code # 0 /\ ~RealTimeout)
               => ret.result.exit_code = child.code

====
